---- MODULE Spec2Model ----
(***************************************************************************)
(* Client-side Stimulus controllers of cleanapp: the pages bulk-selection  *)
(* controller, the notification-email controller and the two sitemap       *)
(* controllers.  One view (one controller) is mounted per document; each   *)
(* async handler is split at its await into the synchronous part run      *)
(* during event dispatch and the continuation run when the fetch settles.  *)
(***************************************************************************)
EXTENDS Integers, Sequences, FiniteSets, Bags, TLC

VARIABLES
    view,             \* which controller's document is open
    connected,        \* connect() has run
    checkboxTargets,  \* pages: checked flag of each row checkbox, in DOM order
    pageIdAttr,       \* pages: dataset.pageId of each row checkbox, in DOM order
    selectAll,        \* pages: [checked, indeterminate] of the select-all control
    hasSelectAllTarget,
    bulkHidden,       \* pages: bulkActionsTarget carries the class "hidden"
    hasBulkActionsTarget,
    emailList,        \* emails: the [data-email-item] nodes of listTarget, in DOM order
    inputValue,       \* emails: inputTarget.value
    addButton,        \* emails: [disabled, textContent] of addButtonTarget
    itemTargets,      \* sitemaps: the rendered item nodes, in DOM order
    nodes,            \* number of list nodes created so far in this document
    onboardingModalHidden,       \* archive: onboardingModalTarget carries "hidden"
    hasOnboardingModalTarget,
    onboardingOverlayHidden,     \* archive: onboardingOverlayTarget carries "hidden"
    hasOnboardingOverlayTarget,
    skipOnboardingItem,          \* localStorage item "skipOnboarding" of this origin
    serverEnabled,    \* emails: the enabled flag the server stores, per followed node
    inflightCap,      \* how many requests this document may have outstanding
    inflight,         \* bag of suspended handlers awaiting their fetch (any may settle next)
    step              \* the handler step just run and what it did

vars == <<view, connected, checkboxTargets, pageIdAttr, selectAll,
          hasSelectAllTarget, bulkHidden, hasBulkActionsTarget, emailList,
          inputValue, addButton, itemTargets, nodes, onboardingModalHidden,
          hasOnboardingModalTarget, onboardingOverlayHidden,
          hasOnboardingOverlayTarget, skipOnboardingItem, serverEnabled,
          inflightCap, inflight, step>>

pagesVars == <<checkboxTargets, pageIdAttr, selectAll, hasSelectAllTarget,
               bulkHidden, hasBulkActionsTarget>>

emailVars == <<emailList, inputValue, addButton>>

onboardingVars == <<onboardingModalHidden, hasOnboardingModalTarget,
                    onboardingOverlayHidden, hasOnboardingOverlayTarget,
                    skipOnboardingItem>>

-----------------------------------------------------------------------------
(* Bounds *)
MaxPages == 2            \* rows rendered on the pages view
MaxBulkInflight == 1     \* bulk-update requests awaiting their response
MaxEmails == 1           \* email items rendered when the emails view loads
MaxEmailInflight == 1    \* emails view: requests awaiting their response
MaxSitemaps == 2         \* items rendered when a sitemaps view loads
MaxSitemapInflight == 2  \* sitemaps views: requests awaiting their response
MaxInputLen == 6         \* characters typed into the email input
MaxRace == 2             \* requests awaiting their response under rapid clicks

\* List nodes ever created in one emails document: one add beyond the render.
MaxNodes == MaxEmails + 1

-----------------------------------------------------------------------------
(* Values *)
Views == {"pages", "emails", "sitemaps", "archive"}

undefined == "<undefined>"   \* a property missing from the response JSON

null == 0                    \* no element (list nodes are numbered from 1)

ServerMessages == {undefined, "", "m"}

\* What awaiting fetch() and response.json() can produce: a parsed response, or
\* an exception (network failure, body that is not JSON).
NoEmailId == 0               \* the response JSON carries no email_id

\* The id the server assigns to the n-th email added in this document.
ServerEmailId(n) == 40 + n

Responses ==
    [kind : {"response"}, ok : BOOLEAN, success : BOOLEAN,
     message : ServerMessages, email_id : {NoEmailId}]
    \cup {[kind |-> "exception", ok |-> FALSE, success |-> FALSE,
           message |-> undefined, email_id |-> NoEmailId]}

\* Responses to POST /api/emails/add: a success response carries the new id.
AddResponses(n) ==
    {r \in Responses : ~(r.ok /\ r.success)}
    \cup [kind : {"response"}, ok : {TRUE}, success : {TRUE},
          message : ServerMessages, email_id : {ServerEmailId(n)}]

NoResponse ==
    [kind |-> "none", ok |-> FALSE, success |-> FALSE, message |-> undefined,
     email_id |-> NoEmailId]

\* The locals a suspended handler holds across its await.
Request(op, node, id, page_ids, flag, email_address, currentTarget) ==
    [op |-> op, node |-> node, id |-> id, page_ids |-> page_ids, flag |-> flag,
     email_address |-> email_address, currentTarget |-> currentTarget]

NoRequest == Request("none", null, <<>>, <<>>, FALSE, <<>>, null)

Notice(message, type) == [message |-> message, type |-> type]

\* JavaScript's a || b on strings: "" and undefined are falsy.
OrElse(a, b) == IF a = undefined \/ a = "" THEN b ELSE a

\* Mutant: the success flag of the body is not consulted.
SucceededOkOnly(resp) == resp.ok

\* Mutant: || in place of &&.
SucceededEither(resp) == resp.ok \/ resp.success

\* response.ok && data.success
Succeeded(resp) == resp.ok /\ resp.success

\* Mutant: the answer to the prompt is ignored.
DeclinedNever(confirmed) == FALSE

\* if (!confirm(...)) return;
Declined(confirmed) == ~confirmed

\* What one handler step did: the node and the flag (enabled, needs_review,
\* the answer to confirm(), whether the storage access threw) it was about,
\* the response it consumed,
\* the showMessage calls, location.reload() calls and fetch calls it made, and
\* whether it ended in an uncaught exception.
Did(op, target, flag, resp, notes, reloads, fetches, uncaught) ==
    [op |-> op, target |-> target, flag |-> flag, resp |-> resp, notes |-> notes,
     reloads |-> reloads, fetches |-> fetches, uncaught |-> uncaught]

-----------------------------------------------------------------------------
(* Decimal strings: dataset values are strings, parseInt reads them back *)
Digits == <<"0", "1", "2", "3", "4", "5", "6", "7", "8", "9">>

NaN == -1

IsDigit(c) == \E d \in 1..Len(Digits) : Digits[d] = c

DigitValue(c) == (CHOOSE d \in 1..Len(Digits) : Digits[d] = c) - 1

RECURSIVE ToDecimal(_)
ToDecimal(n) ==
    IF n < 10 THEN <<Digits[n + 1]>>
    ELSE Append(ToDecimal(n \div 10), Digits[(n % 10) + 1])

RECURSIVE ParseDigits(_, _, _)
ParseDigits(s, i, acc) ==
    IF i > Len(s) \/ ~IsDigit(s[i]) THEN acc
    ELSE ParseDigits(s, i + 1, acc * 10 + DigitValue(s[i]))

\* parseInt(string): the longest decimal prefix, NaN when there is none.
ParseInt(s) ==
    IF s = <<>> \/ ~IsDigit(s[1]) THEN NaN ELSE ParseDigits(s, 1, 0)

\* The id the server rendered into row i (rows are not sorted by id).
RenderedPageId(i) == (i * 13 + 5) % 20

-----------------------------------------------------------------------------
(* Pages controller *)
AnyChecked(cbs) == \E i \in 1..Len(cbs) : cbs[i]

\* Mutant: one checked row is enough for "all".
AllCheckedSome(cbs) == \E i \in 1..Len(cbs) : cbs[i]

\* Array.from(checkboxTargets).every(checkbox => checkbox.checked)
AllChecked(cbs) == \A i \in 1..Len(cbs) : cbs[i]

\* Mutant: the bar is shown only when every row is checked.
UpdateBulkActionsVisibilityEvery(cbs, hidden) ==
    IF hasBulkActionsTarget THEN ~AllChecked(cbs) ELSE hidden

\* updateBulkActionsVisibility(): the new "hidden" state of the bulk bar.
UpdateBulkActionsVisibility(cbs, hidden) ==
    IF hasBulkActionsTarget THEN ~AnyChecked(cbs) ELSE hidden

\* Mutant: the ids are collected last row first.
RECURSIVE SelectedPageIdsReversed(_, _, _)
SelectedPageIdsReversed(cbs, attrs, i) ==
    IF i > Len(cbs) THEN <<>>
    ELSE SelectedPageIdsReversed(cbs, attrs, i + 1)
         \o (IF cbs[i] THEN <<ParseInt(attrs[i])>> ELSE <<>>)

\* The ids of the checked rows, in DOM order.
RECURSIVE SelectedPageIds(_, _, _)
SelectedPageIds(cbs, attrs, i) ==
    IF i > Len(cbs) THEN <<>>
    ELSE (IF cbs[i] THEN <<ParseInt(attrs[i])>> ELSE <<>>)
         \o SelectedPageIds(cbs, attrs, i + 1)

\* localStorage.getItem("skipOnboarding") returns null when the item is unset.
noItem == "<null>"

StoredItems == {noItem, "true", "false"}

\* Mutant: any stored value counts as set.
ShouldSkipOnboardingAnyValue(item, getItemThrows) ==
    IF getItemThrows THEN FALSE ELSE item # noItem

\* shouldSkipOnboarding(): an exception of the storage access reads as unset.
ShouldSkipOnboarding(item, getItemThrows) ==
    IF getItemThrows THEN FALSE ELSE item = "true"

\* setSkipOnboarding(): the item after the call; an exception is ignored.
SetSkipOnboarding(item, setItemThrows) ==
    IF setItemThrows THEN item ELSE "true"

\* classList.add("hidden") on an onboarding target, when the target exists.
HideOnboarding(hasTarget, hidden) == IF hasTarget THEN TRUE ELSE hidden

\* connect(): the pages controller refreshes the bulk bar, the archive
\* controller hides the onboarding when the stored flag says so; the other
\* controllers modelled here change nothing of this state.
Connect(getItemThrows) ==
    /\ ~connected
    /\ connected' = TRUE
    /\ bulkHidden' = (IF view = "pages"
                      THEN UpdateBulkActionsVisibility(checkboxTargets, bulkHidden)
                      ELSE bulkHidden)
    /\ LET skip == /\ view = "archive"
                   /\ ShouldSkipOnboarding(skipOnboardingItem, getItemThrows)
       IN /\ onboardingModalHidden' =
               (IF skip
                THEN HideOnboarding(hasOnboardingModalTarget, onboardingModalHidden)
                ELSE onboardingModalHidden)
          /\ onboardingOverlayHidden' =
               (IF skip
                THEN HideOnboarding(hasOnboardingOverlayTarget, onboardingOverlayHidden)
                ELSE onboardingOverlayHidden)
    /\ step' = Did("connect", null, view = "archive" /\ getItemThrows, NoResponse,
                   <<>>, 0, 0, FALSE)
    /\ UNCHANGED <<view, inflightCap, serverEnabled, hasOnboardingModalTarget,
                   hasOnboardingOverlayTarget, skipOnboardingItem, checkboxTargets,
                   pageIdAttr, selectAll, hasSelectAllTarget,
                   hasBulkActionsTarget, emailVars, itemTargets, nodes, inflight>>

\* The user clicks the select-all control: the browser flips it and clears its
\* indeterminate flag, then the change handler runs.
ToggleSelectAll ==
    /\ view = "pages" /\ connected /\ hasSelectAllTarget
    /\ LET checked == ~selectAll.checked
           cbs == [i \in 1..Len(checkboxTargets) |-> checked]
       IN /\ selectAll' = [checked |-> checked, indeterminate |-> FALSE]
          /\ checkboxTargets' = cbs
          /\ bulkHidden' = UpdateBulkActionsVisibility(cbs, bulkHidden)
    /\ step' = Did("toggleSelectAll", null, FALSE, NoResponse, <<>>, 0, 0, FALSE)
    /\ UNCHANGED <<view, inflightCap, serverEnabled, onboardingVars,
                   connected, pageIdAttr, hasSelectAllTarget,
                   hasBulkActionsTarget, emailVars, itemTargets, nodes, inflight>>

\* The user clicks row checkbox i: the browser flips it, then the handler runs.
ToggleCheckbox(i) ==
    /\ view = "pages" /\ connected
    /\ i \in 1..Len(checkboxTargets)
    /\ LET cbs == [checkboxTargets EXCEPT ![i] = ~@]
           allChecked == AllChecked(cbs)
           anyChecked == AnyChecked(cbs)
       IN /\ checkboxTargets' = cbs
          /\ selectAll' = (IF hasSelectAllTarget
                           THEN [checked |-> allChecked,
                                 indeterminate |-> anyChecked /\ ~allChecked]
                           ELSE selectAll)
          /\ bulkHidden' = UpdateBulkActionsVisibility(cbs, bulkHidden)
    /\ step' = Did("toggleCheckbox", i, FALSE, NoResponse, <<>>, 0, 0, FALSE)
    /\ UNCHANGED <<view, inflightCap, serverEnabled, onboardingVars,
                   connected, pageIdAttr, hasSelectAllTarget,
                   hasBulkActionsTarget, emailVars, itemTargets, nodes, inflight>>

\* Mutant: the empty-selection check is missing.
UpdatePagesUnchecked(needsReview) ==
    /\ view = "pages" /\ connected
    /\ LET pageIds == SelectedPageIds(checkboxTargets, pageIdAttr, 1)
           req == Request("updatePages", null, <<>>, pageIds, needsReview, <<>>, null)
       IN /\ BagCardinality(inflight) < inflightCap
          /\ inflight' = inflight (+) SetToBag({req})
          /\ step' = Did("updatePages", null, needsReview, NoResponse, <<>>, 0, 1, FALSE)
    /\ UNCHANGED <<view, inflightCap, serverEnabled, onboardingVars,
                   connected, pagesVars, emailVars, itemTargets, nodes>>

\* updatePages(needsReview) up to its await of fetch.
UpdatePages(needsReview) ==
    /\ view = "pages" /\ connected
    /\ LET pageIds == SelectedPageIds(checkboxTargets, pageIdAttr, 1)
           req == Request("updatePages", null, <<>>, pageIds, needsReview, <<>>, null)
       IN IF Len(pageIds) = 0
          THEN /\ step' = Did("updatePages", null, needsReview, NoResponse,
                              <<Notice("Please select at least one page", "error")>>,
                              0, 0, FALSE)
               /\ UNCHANGED inflight
          ELSE /\ BagCardinality(inflight) < inflightCap
               /\ inflight' = inflight (+) SetToBag({req})
               /\ step' = Did("updatePages", null, needsReview, NoResponse, <<>>, 0, 1, FALSE)
    /\ UNCHANGED <<view, inflightCap, serverEnabled, onboardingVars,
                   connected, pagesVars, emailVars, itemTargets, nodes>>

MarkAsNoReview == UpdatePages(FALSE)

MarkAsNeedsReview == UpdatePages(TRUE)

\* updatePages after its await: request r settles with resp.
UpdatePagesSettle(r, resp) ==
    /\ BagIn(r, inflight)
    /\ r.op = "updatePages"
    /\ inflight' = inflight (-) SetToBag({r})
    /\ step' =
         IF resp.kind = "exception"
         THEN Did("updatePagesSettle", null, r.flag, resp,
                  <<Notice("An error occurred while updating pages", "error")>>,
                  0, 0, FALSE)
         ELSE IF Succeeded(resp)
         THEN Did("updatePagesSettle", null, r.flag, resp,
                  <<Notice(resp.message, "success")>>, 1, 0, FALSE)
         ELSE Did("updatePagesSettle", null, r.flag, resp,
                  <<Notice(OrElse(resp.message, "Failed to update pages"), "error")>>,
                  0, 0, FALSE)
    /\ UNCHANGED <<view, inflightCap, serverEnabled, onboardingVars,
                   connected, pagesVars, emailVars, itemTargets, nodes>>

-----------------------------------------------------------------------------
(* Email controller *)
Whitespace == {" "}

Alphabet == {"a", "@", ".", " "}

RECURSIVE TrimStart(_)
TrimStart(s) ==
    IF s # <<>> /\ s[1] \in Whitespace THEN TrimStart(Tail(s)) ELSE s

RECURSIVE TrimEnd(_)
TrimEnd(s) ==
    IF s # <<>> /\ s[Len(s)] \in Whitespace
    THEN TrimEnd(SubSeq(s, 1, Len(s) - 1)) ELSE s

\* String.prototype.trim()
Trim(s) == TrimEnd(TrimStart(s))

\* [^\s@]
NotSpaceNotAt(c) == c \notin Whitespace /\ c # "@"

\* One character of /^[^\s@]+@[^\s@]+\.[^\s@]+$/ from position q of the
\* pattern: 0 start, 1 in the first run, 2 past "@", 3 in the second run,
\* 4 past "\.", 5 in the third run.
RegexMove(q, c) ==
    CASE q = 0 -> IF NotSpaceNotAt(c) THEN {1} ELSE {}
      [] q = 1 -> IF NotSpaceNotAt(c) THEN {1} ELSE IF c = "@" THEN {2} ELSE {}
      [] q = 2 -> IF NotSpaceNotAt(c) THEN {3} ELSE {}
      [] q = 3 -> (IF NotSpaceNotAt(c) THEN {3} ELSE {})
                  \cup (IF c = "." THEN {4} ELSE {})
      [] q = 4 -> IF NotSpaceNotAt(c) THEN {5} ELSE {}
      [] q = 5 -> IF NotSpaceNotAt(c) THEN {5} ELSE {}

RECURSIVE RegexRun(_, _, _)
RegexRun(s, i, qs) ==
    IF i > Len(s) THEN qs
    ELSE RegexRun(s, i + 1, UNION {RegexMove(q, s[i]) : q \in qs})

\* Mutant: any address holding an "@" passes.
IsValidEmailLoose(email) == \E i \in 1..Len(email) : email[i] = "@"

\* isValidEmail(email)
IsValidEmail(email) == 5 \in RegexRun(email, 1, {0})

\* The id and address the server rendered into email item i.
RenderedEmailId(i) == 10 + i

RenderedAddress == <<"a", "@", "a", ".", "a">>

\* What the user types into the input on the emails view.
TypedInputs == { <<>>, <<" ", "a", "@", "a", ".", "a">> }

IdleButton == [disabled |-> FALSE, textContent |-> "Add Email"]

\* Mutant: the label changes but the button stays enabled.
BusyButtonEnabled == [disabled |-> FALSE, textContent |-> "Adding..."]

BusyButton == [disabled |-> TRUE, textContent |-> "Adding..."]

\* Mutant: the item's id attribute is filled with its position in the document.
EmailItemNumbered(node, emailId, emailAddress, enabled) ==
    [node |-> node, emailIdAttr |-> ToDecimal(node), address |-> emailAddress,
     checked |-> enabled]

\* An email item node: addEmailToList(emailId, emailAddress, enabled) builds it
\* as the server's template renders it.
EmailItem(node, emailId, emailAddress, enabled) ==
    [node |-> node, emailIdAttr |-> ToDecimal(emailId), address |-> emailAddress,
     checked |-> enabled]

\* Mutant: the first node of the list is removed, whichever was asked for.
RemoveFirstNode(list, node) == IF list = <<>> THEN list ELSE Tail(list)

\* element.remove() of a list node: nothing happens when it is already detached.
RemoveNode(list, node) ==
    LET Keep(x) == x.node # node IN SelectSeq(list, Keep)

\* checkbox.checked = value on the checkbox of a list node.
SetChecked(list, node, value) ==
    [i \in 1..Len(list) |->
        IF list[i].node = node THEN [list[i] EXCEPT !.checked = value] ELSE list[i]]

IsRendered(list, node) == \E i \in 1..Len(list) : list[i].node = node

TypeInput(s) ==
    /\ view = "emails" /\ connected
    /\ inputValue' = s
    /\ step' = Did("typeInput", null, FALSE, NoResponse, <<>>, 0, 0, FALSE)
    /\ UNCHANGED <<view, inflightCap, serverEnabled, onboardingVars,
                   connected, pagesVars, emailList, addButton, itemTargets,
                   nodes, inflight>>

\* addEmail(event) up to its await of fetch.  A disabled button takes no click.
AddEmail ==
    /\ view = "emails" /\ connected
    /\ ~addButton.disabled
    /\ LET emailAddress == Trim(inputValue)
           req == Request("addEmail", null, <<>>, <<>>, FALSE, emailAddress, null)
       IN IF emailAddress = <<>>
          THEN /\ step' = Did("addEmail", null, FALSE, NoResponse,
                              <<Notice("Please enter an email address", "error")>>,
                              0, 0, FALSE)
               /\ UNCHANGED <<addButton, inflight>>
          ELSE IF ~IsValidEmail(emailAddress)
          THEN /\ step' = Did("addEmail", null, FALSE, NoResponse,
                              <<Notice("Please enter a valid email address", "error")>>,
                              0, 0, FALSE)
               /\ UNCHANGED <<addButton, inflight>>
          ELSE /\ BagCardinality(inflight) < inflightCap
               /\ nodes < MaxNodes
               /\ addButton' = BusyButton
               /\ inflight' = inflight (+) SetToBag({req})
               /\ step' = Did("addEmail", null, FALSE, NoResponse, <<>>, 0, 1, FALSE)
    /\ UNCHANGED <<view, inflightCap, serverEnabled, onboardingVars,
                   connected, pagesVars, emailList, inputValue, itemTargets,
                   nodes>>

\* addEmail after its await: request r settles with resp.
AddEmailSettle(r, resp) ==
    /\ BagIn(r, inflight)
    /\ r.op = "addEmail"
    /\ inflight' = inflight (-) SetToBag({r})
    /\ IF resp.kind = "exception"
       THEN /\ step' = Did("addEmailSettle", null, FALSE, resp,
                           <<Notice("An error occurred. Please try again.", "error")>>,
                           0, 0, FALSE)
            /\ UNCHANGED <<inputValue, emailList, nodes>>
       ELSE IF Succeeded(resp)
       THEN /\ step' = Did("addEmailSettle", nodes + 1, FALSE, resp,
                           <<Notice(resp.message, "success")>>, 0, 0, FALSE)
            /\ inputValue' = <<>>
            /\ emailList' = Append(emailList,
                               EmailItem(nodes + 1, resp.email_id,
                                         r.email_address, TRUE))
            /\ nodes' = nodes + 1
       ELSE /\ step' = Did("addEmailSettle", null, FALSE, resp,
                           <<Notice(OrElse(resp.message, "Failed to add email"),
                                    "error")>>,
                           0, 0, FALSE)
            /\ UNCHANGED <<inputValue, emailList, nodes>>
    /\ addButton' = IdleButton
    /\ UNCHANGED <<view, inflightCap, serverEnabled, onboardingVars,
                   connected, pagesVars, itemTargets>>

\* event.currentTarget as a handler reads it after an await: the browser resets
\* it to null when the dispatch of the event ends.
CurrentTarget(node) == null

\* target.checked = value; a TypeError is thrown when target is null.
AssignChecked(list, target, value) ==
    IF target = null
    THEN [threw |-> TRUE, list |-> list]
    ELSE [threw |-> FALSE, list |-> SetChecked(list, target, value)]

\* The user clicks the checkbox of email item i: the browser flips it, then
\* toggleEmail(event) runs up to its await of fetch.
ToggleEmail(i) ==
    /\ view = "emails" /\ connected
    /\ i \in 1..Len(emailList)
    /\ BagCardinality(inflight) < inflightCap
    /\ LET enabled == ~emailList[i].checked
           req == Request("toggleEmail", emailList[i].node, emailList[i].emailIdAttr,
                          <<>>, enabled, <<>>, CurrentTarget(emailList[i].node))
       IN /\ emailList' = [emailList EXCEPT ![i].checked = enabled]
          /\ inflight' = inflight (+) SetToBag({req})
          /\ step' = Did("toggleEmail", emailList[i].node, enabled, NoResponse,
                         <<>>, 0, 1, FALSE)
    /\ UNCHANGED <<view, inflightCap, serverEnabled, onboardingVars,
                   connected, pagesVars, inputValue, addButton, itemTargets,
                   nodes>>

\* POST /api/emails/<id>/toggle with body {enabled}: the flag the server holds
\* for each followed node once it has answered resp.  The server stores the
\* flag of a request it answers with success and nothing otherwise; parallel
\* requests reach it in any order, and each is answered as it is applied.
ServerToggle(server, node, enabled, resp) ==
    [n \in DOMAIN server |->
        IF n = node /\ resp.kind = "response" /\ resp.ok /\ resp.success
        THEN enabled ELSE server[n]]

\* toggleEmail after its await: request r settles with resp.
ToggleEmailSettle(r, resp) ==
    /\ BagIn(r, inflight)
    /\ r.op = "toggleEmail"
    /\ inflight' = inflight (-) SetToBag({r})
    /\ serverEnabled' = ServerToggle(serverEnabled, r.node, r.flag, resp)
    /\ LET rollback == AssignChecked(emailList, r.currentTarget, ~r.flag)
           generic == Notice("An error occurred. Please try again.", "error")
           failed == Notice(OrElse(resp.message, "Failed to update email"), "error")
       IN IF resp.kind = "exception"
          THEN /\ step' = Did("toggleEmailSettle", r.node, r.flag, resp, <<generic>>,
                              0, 0, rollback.threw)
               /\ emailList' = rollback.list
          ELSE IF Succeeded(resp)
          THEN /\ step' = Did("toggleEmailSettle", r.node, r.flag, resp,
                              <<Notice(resp.message, "success")>>, 0, 0, FALSE)
               /\ UNCHANGED emailList
          ELSE IF rollback.threw
          THEN \* the TypeError of line 72 lands in the catch block, whose own
               \* assignment throws again
               /\ step' = Did("toggleEmailSettle", r.node, r.flag, resp,
                              <<failed, generic>>, 0, 0, TRUE)
               /\ UNCHANGED emailList
          ELSE /\ step' = Did("toggleEmailSettle", r.node, r.flag, resp, <<failed>>,
                              0, 0, FALSE)
               /\ emailList' = rollback.list
    /\ UNCHANGED <<view, inflightCap, onboardingVars,
                   connected, pagesVars, inputValue, addButton, itemTargets,
                   nodes>>

\* The user clicks Remove on email item i and answers the confirm() prompt:
\* deleteEmail(event) up to its await of fetch.
DeleteEmail(i, confirmed) ==
    /\ view = "emails" /\ connected
    /\ i \in 1..Len(emailList)
    /\ LET req == Request("deleteEmail", emailList[i].node, emailList[i].emailIdAttr,
                          <<>>, FALSE, <<>>, null)
       IN IF Declined(confirmed)
          THEN /\ step' = Did("deleteEmail", emailList[i].node, confirmed, NoResponse,
                              <<>>, 0, 0, FALSE)
               /\ UNCHANGED inflight
          ELSE /\ BagCardinality(inflight) < inflightCap
               /\ inflight' = inflight (+) SetToBag({req})
               /\ step' = Did("deleteEmail", emailList[i].node, confirmed, NoResponse,
                              <<>>, 0, 1, FALSE)
    /\ UNCHANGED <<view, inflightCap, serverEnabled, onboardingVars,
                   connected, pagesVars, emailVars, itemTargets, nodes>>

\* deleteEmail after its await: request r settles with resp.
DeleteEmailSettle(r, resp) ==
    /\ BagIn(r, inflight)
    /\ r.op = "deleteEmail"
    /\ inflight' = inflight (-) SetToBag({r})
    /\ IF resp.kind = "exception"
          THEN /\ step' = Did("deleteEmailSettle", r.node, FALSE, resp,
                              <<Notice("An error occurred. Please try again.",
                                       "error")>>, 0, 0, FALSE)
               /\ UNCHANGED emailList
          ELSE IF Succeeded(resp)
          THEN /\ step' = Did("deleteEmailSettle", r.node, FALSE, resp,
                              <<Notice(resp.message, "success")>>, 0, 0, FALSE)
               /\ emailList' = RemoveNode(emailList, r.node)
          ELSE /\ step' = Did("deleteEmailSettle", r.node, FALSE, resp,
                              <<Notice(OrElse(resp.message, "Failed to delete email"),
                                       "error")>>, 0, 0, FALSE)
               /\ UNCHANGED emailList
    /\ UNCHANGED <<view, inflightCap, serverEnabled, onboardingVars,
                   connected, pagesVars, inputValue, addButton, itemTargets,
                   nodes>>

-----------------------------------------------------------------------------
(* Sitemap controllers: "sitemaps" deletes, "archive" archives *)
SitemapViews == {"sitemaps", "archive"}

RenderedSitemapId(i) == 20 + i

FailedText(v) ==
    IF v = "archive" THEN "Failed to archive sitemap" ELSE "Failed to delete sitemap"

ErrorText(v) ==
    IF v = "archive" THEN "An error occurred while archiving the sitemap"
    ELSE "An error occurred while deleting the sitemap"

\* The user clicks the delete/archive button of item i and answers the
\* confirm() prompt: delete(event) up to its await of fetch.
Delete(i, confirmed) ==
    /\ view \in SitemapViews /\ connected
    /\ i \in 1..Len(itemTargets)
    /\ LET req == Request("delete", itemTargets[i].node, itemTargets[i].sitemapIdAttr,
                          <<>>, FALSE, <<>>, null)
       IN IF Declined(confirmed)
          THEN /\ step' = Did("delete", itemTargets[i].node, confirmed, NoResponse,
                              <<>>, 0, 0, FALSE)
               /\ UNCHANGED inflight
          ELSE /\ BagCardinality(inflight) < inflightCap
               /\ inflight' = inflight (+) SetToBag({req})
               /\ step' = Did("delete", itemTargets[i].node, confirmed, NoResponse,
                              <<>>, 0, 1, FALSE)
    /\ UNCHANGED <<view, inflightCap, serverEnabled, onboardingVars,
                   connected, pagesVars, emailVars, itemTargets, nodes>>

\* Mutant: the count is taken as if the removed node were still attached.
ReloadNeededOffByOne(remaining) == Len(remaining) <= 1

\* if (remainingItems.length === 0) / if (this.itemTargets.length === 0)
ReloadNeeded(remaining) == Len(remaining) = 0

\* delete after its await: request r settles with resp.
DeleteSettle(r, resp) ==
    /\ BagIn(r, inflight)
    /\ r.op = "delete"
    /\ inflight' = inflight (-) SetToBag({r})
    /\ LET remaining == RemoveNode(itemTargets, r.node)
       IN IF resp.kind = "exception"
          THEN /\ step' = Did("deleteSettle", r.node, FALSE, resp,
                              <<Notice(ErrorText(view), "error")>>, 0, 0, FALSE)
               /\ UNCHANGED itemTargets
          ELSE IF Succeeded(resp)
          THEN /\ itemTargets' = remaining
               /\ step' = Did("deleteSettle", r.node, FALSE, resp,
                              <<Notice(resp.message, "success")>>,
                              IF ReloadNeeded(remaining) THEN 1 ELSE 0, 0, FALSE)
          ELSE /\ step' = Did("deleteSettle", r.node, FALSE, resp,
                              <<Notice(OrElse(resp.message, FailedText(view)),
                                       "error")>>, 0, 0, FALSE)
               /\ UNCHANGED itemTargets
    /\ UNCHANGED <<view, inflightCap, serverEnabled, onboardingVars,
                   connected, pagesVars, emailVars, nodes>>

\* skipOnboarding(): the flag is stored as far as the storage allows, and the
\* onboarding is hidden either way.
SkipOnboarding(setItemThrows) ==
    /\ view = "archive" /\ connected
    /\ skipOnboardingItem' = SetSkipOnboarding(skipOnboardingItem, setItemThrows)
    /\ onboardingModalHidden' =
         HideOnboarding(hasOnboardingModalTarget, onboardingModalHidden)
    /\ onboardingOverlayHidden' =
         HideOnboarding(hasOnboardingOverlayTarget, onboardingOverlayHidden)
    /\ step' = Did("skipOnboarding", null, setItemThrows, NoResponse, <<>>, 0, 0, FALSE)
    /\ UNCHANGED <<view, inflightCap, serverEnabled, hasOnboardingModalTarget,
                   hasOnboardingOverlayTarget, connected, pagesVars, emailVars,
                   itemTargets, nodes, inflight>>

\* showOnboarding(): classList.remove("hidden") on the targets that exist.
ShowOnboarding ==
    /\ view = "archive" /\ connected
    /\ onboardingModalHidden' =
         (IF hasOnboardingModalTarget THEN FALSE ELSE onboardingModalHidden)
    /\ onboardingOverlayHidden' =
         (IF hasOnboardingOverlayTarget THEN FALSE ELSE onboardingOverlayHidden)
    /\ step' = Did("showOnboarding", null, FALSE, NoResponse, <<>>, 0, 0, FALSE)
    /\ UNCHANGED <<view, inflightCap, serverEnabled, hasOnboardingModalTarget,
                   hasOnboardingOverlayTarget, skipOnboardingItem, connected,
                   pagesVars, emailVars, itemTargets, nodes, inflight>>

-----------------------------------------------------------------------------
(* The document as the server rendered it *)
NoPages ==
    /\ checkboxTargets = <<>>
    /\ pageIdAttr = <<>>
    /\ selectAll = [checked |-> FALSE, indeterminate |-> FALSE]
    /\ hasSelectAllTarget = FALSE
    /\ hasBulkActionsTarget = FALSE
    /\ bulkHidden = TRUE

NoEmails ==
    /\ emailList = <<>>
    /\ inputValue = <<>>
    /\ addButton = IdleButton

NoOnboarding ==
    /\ hasOnboardingModalTarget = FALSE
    /\ hasOnboardingOverlayTarget = FALSE
    /\ onboardingModalHidden = TRUE
    /\ onboardingOverlayHidden = TRUE
    /\ skipOnboardingItem = noItem

\* The archive view renders its onboarding modal and overlay shown.
RenderedOnboarding ==
    /\ hasOnboardingModalTarget = TRUE
    /\ hasOnboardingOverlayTarget = TRUE
    /\ onboardingModalHidden = FALSE
    /\ onboardingOverlayHidden = FALSE
    /\ skipOnboardingItem = noItem

\* The requests a document of view v may have outstanding.
InflightBound(v) ==
    CASE v = "pages" -> MaxBulkInflight
      [] v = "emails" -> MaxEmailInflight
      [] OTHER -> MaxSitemapInflight

InitPages ==
    /\ view = "pages"
    /\ NoOnboarding
    /\ \E n \in 0..MaxPages :
         /\ checkboxTargets = [i \in 1..n |-> FALSE]
         /\ pageIdAttr = [i \in 1..n |-> ToDecimal(RenderedPageId(i))]
    /\ selectAll = [checked |-> FALSE, indeterminate |-> FALSE]
    /\ hasSelectAllTarget \in BOOLEAN
    /\ hasBulkActionsTarget \in BOOLEAN
    /\ bulkHidden \in BOOLEAN
    /\ NoEmails
    /\ itemTargets = <<>>
    /\ nodes = 0

InitEmails ==
    /\ view = "emails"
    /\ NoOnboarding
    /\ NoPages
    /\ \E n \in 0..MaxEmails : \E enabled \in [1..n -> BOOLEAN] :
         /\ emailList = [i \in 1..n |->
                           EmailItem(i, RenderedEmailId(i), RenderedAddress, enabled[i])]
         /\ nodes = n
    /\ inputValue = <<>>
    /\ addButton = IdleButton
    /\ itemTargets = <<>>

InitSitemaps ==
    /\ view \in SitemapViews
    /\ IF view = "archive" THEN RenderedOnboarding ELSE NoOnboarding
    /\ NoPages
    /\ NoEmails
    /\ \E n \in 0..MaxSitemaps :
         /\ itemTargets = [i \in 1..n |->
                             [node |-> i, sitemapIdAttr |-> ToDecimal(RenderedSitemapId(i))]]
         /\ nodes = n

Init ==
    /\ view \in Views
    /\ InitPages \/ InitEmails \/ InitSitemaps
    /\ connected = FALSE
    /\ inflightCap = InflightBound(view)
    /\ serverEnabled = <<>>
    /\ inflight = EmptyBag
    /\ step = Did("load", null, FALSE, NoResponse, <<>>, 0, 0, FALSE)

Next ==
    \/ \E getItemThrows \in BOOLEAN : Connect(getItemThrows)
    \/ ToggleSelectAll
    \/ \E i \in 1..MaxPages : ToggleCheckbox(i)
    \/ MarkAsNoReview
    \/ MarkAsNeedsReview
    \/ \E r \in BagToSet(inflight), resp \in Responses : UpdatePagesSettle(r, resp)
    \/ \E s \in TypedInputs : TypeInput(s)
    \/ AddEmail
    \/ \E r \in BagToSet(inflight), resp \in AddResponses(nodes + 1) : AddEmailSettle(r, resp)
    \/ \E i \in 1..MaxNodes : ToggleEmail(i)
    \/ \E r \in BagToSet(inflight), resp \in Responses : ToggleEmailSettle(r, resp)
    \/ \E i \in 1..MaxNodes, confirmed \in BOOLEAN : DeleteEmail(i, confirmed)
    \/ \E r \in BagToSet(inflight), resp \in Responses : DeleteEmailSettle(r, resp)
    \/ \E i \in 1..MaxSitemaps, confirmed \in BOOLEAN : Delete(i, confirmed)
    \/ \E r \in BagToSet(inflight), resp \in Responses : DeleteSettle(r, resp)
    \/ \E setItemThrows \in BOOLEAN : SkipOnboarding(setItemThrows)
    \/ ShowOnboarding

Spec == Init /\ [][Next]_vars

\* The add form alone, over every input the user can type.
InputStrings == UNION {[1..n -> Alphabet] : n \in 0..MaxInputLen}

InitInput ==
    /\ view = "emails"
    /\ NoPages
    /\ NoOnboarding
    /\ inflightCap = MaxEmailInflight
    /\ serverEnabled = <<>>
    /\ emailList = <<>>
    /\ inputValue \in InputStrings
    /\ addButton = IdleButton
    /\ itemTargets = <<>>
    /\ nodes = 0
    /\ connected = TRUE
    /\ inflight = EmptyBag
    /\ step = Did("load", null, FALSE, NoResponse, <<>>, 0, 0, FALSE)

NextInput ==
    \/ AddEmail
    \/ \E r \in BagToSet(inflight), resp \in AddResponses(nodes + 1) : AddEmailSettle(r, resp)

SpecInput == InitInput /\ [][NextInput]_vars

\* The archive view's onboarding alone, over every rendering of its targets and
\* every stored item.
InitOnboarding ==
    /\ view = "archive"
    /\ NoPages
    /\ NoEmails
    /\ itemTargets = <<>>
    /\ nodes = 0
    /\ hasOnboardingModalTarget \in BOOLEAN
    /\ hasOnboardingOverlayTarget \in BOOLEAN
    /\ onboardingModalHidden \in (IF hasOnboardingModalTarget THEN BOOLEAN ELSE {TRUE})
    /\ onboardingOverlayHidden \in (IF hasOnboardingOverlayTarget THEN BOOLEAN ELSE {TRUE})
    /\ skipOnboardingItem \in StoredItems
    /\ connected = FALSE
    /\ inflightCap = MaxSitemapInflight
    /\ serverEnabled = <<>>
    /\ inflight = EmptyBag
    /\ step = Did("load", null, FALSE, NoResponse, <<>>, 0, 0, FALSE)

NextOnboarding ==
    \/ \E getItemThrows \in BOOLEAN : Connect(getItemThrows)
    \/ \E setItemThrows \in BOOLEAN : SkipOnboarding(setItemThrows)
    \/ ShowOnboarding

SpecOnboarding == InitOnboarding /\ [][NextOnboarding]_vars

\* Rapid clicks: one pages row, or one email item whose stored flag is
\* followed, with MaxRace requests allowed in flight.
InitRace ==
    /\ view \in {"pages", "emails"}
    /\ NoOnboarding
    /\ itemTargets = <<>>
    /\ nodes = 1
    /\ IF view = "pages"
       THEN /\ checkboxTargets = <<FALSE>>
            /\ pageIdAttr = <<ToDecimal(RenderedPageId(1))>>
            /\ selectAll = [checked |-> FALSE, indeterminate |-> FALSE]
            /\ hasSelectAllTarget = TRUE
            /\ hasBulkActionsTarget = TRUE
            /\ bulkHidden = TRUE
            /\ NoEmails
            /\ serverEnabled = <<>>
       ELSE /\ NoPages
            /\ inputValue = <<>>
            /\ addButton = IdleButton
            /\ \E enabled \in BOOLEAN :
                 /\ emailList = <<EmailItem(1, RenderedEmailId(1), RenderedAddress,
                                            enabled)>>
                 /\ serverEnabled = <<enabled>>
    /\ connected = TRUE
    /\ inflightCap = MaxRace
    /\ inflight = EmptyBag
    /\ step = Did("load", null, FALSE, NoResponse, <<>>, 0, 0, FALSE)

NextRace ==
    \/ \E i \in 1..MaxPages : ToggleCheckbox(i)
    \/ MarkAsNoReview
    \/ MarkAsNeedsReview
    \/ \E r \in BagToSet(inflight), resp \in Responses : UpdatePagesSettle(r, resp)
    \/ \E i \in 1..MaxNodes : ToggleEmail(i)
    \/ \E r \in BagToSet(inflight), resp \in Responses : ToggleEmailSettle(r, resp)
    \/ \E i \in 1..MaxNodes, confirmed \in BOOLEAN : DeleteEmail(i, confirmed)
    \/ \E r \in BagToSet(inflight), resp \in Responses : DeleteEmailSettle(r, resp)

SpecRace == InitRace /\ [][NextRace]_vars

-----------------------------------------------------------------------------
(* Properties *)
AnySelected == \E i \in DOMAIN checkboxTargets : checkboxTargets[i]

AllSelected ==
    /\ Cardinality({i \in DOMAIN checkboxTargets : checkboxTargets[i]})
         = Len(checkboxTargets)
    /\ Len(checkboxTargets) > 0

IsSuccess(resp) == resp.kind = "response" /\ resp.ok /\ resp.success

\* The rendered list of the open view.
Rendered == IF view = "emails" THEN emailList ELSE itemTargets

Position(list, node) == CHOOSE i \in DOMAIN list : list[i].node = node

\* list without the item of node, every other item as it was.
Without(list, node) ==
    LET p == Position(list, node)
    IN [i \in 1..(Len(list) - 1) |-> IF i < p THEN list[i] ELSE list[i + 1]]

\* C1: once connected, the select-all control is indeterminate exactly when some
\* but not all rows are checked, and the bulk bar is visible exactly when some
\* row is checked.
C1_AggregateState ==
    (view = "pages" /\ connected) =>
        /\ hasSelectAllTarget =>
              (selectAll.indeterminate <=> (AnySelected /\ ~AllSelected))
        /\ hasBulkActionsTarget => (~bulkHidden <=> AnySelected)

C1_Witness ==
    /\ view = "pages" /\ connected /\ hasSelectAllTarget /\ hasBulkActionsTarget
    /\ AnySelected /\ ~AllSelected
    /\ selectAll.indeterminate /\ ~bulkHidden

\* C2: a toggle that settles as a failure leaves the checkbox at the value it
\* had before the click; a toggle that settles as a success leaves it alone.
C2_ToggleRollback ==
    [][step'.op = "toggleEmailSettle" =>
         IF IsSuccess(step'.resp)
         THEN emailList' = emailList
         ELSE \A i \in DOMAIN emailList' :
                 emailList'[i].node = step'.target =>
                     emailList'[i].checked = ~step'.flag]_vars

\* C3: a bulk action with nothing checked issues no request, shows the "select
\* at least one" error and changes nothing else.
C3_EmptySelectionRejected ==
    [][(step'.op = "updatePages" /\ ~AnySelected) =>
         /\ step'.fetches = 0
         /\ inflight' = inflight
         /\ step'.notes = <<Notice("Please select at least one page", "error")>>
         /\ step'.reloads = 0
         /\ UNCHANGED <<view, connected, pagesVars, emailVars, itemTargets, nodes,
                        onboardingVars, serverEnabled>>]_vars

C3_Witness ==
    /\ view = "pages" /\ Len(checkboxTargets) > 0 /\ ~AnySelected
    /\ step.op = "updatePages" /\ step.fetches = 0 /\ Len(step.notes) = 1

C5_DeclineHasNoEffect ==
    [][(step'.op \in {"delete", "deleteEmail"} /\ ~step'.flag) =>
         /\ step'.fetches = 0
         /\ inflight' = inflight
         /\ step'.notes = <<>>
         /\ step'.reloads = 0
         /\ UNCHANGED <<view, connected, pagesVars, emailVars, itemTargets, nodes,
                        onboardingVars, serverEnabled>>]_vars

C5_Witness ==
    /\ view = "archive" /\ step.op = "delete" /\ ~step.flag
    /\ step.fetches = 0 /\ Len(itemTargets) > 0

\* s without its leading and trailing whitespace.
Trimmed(s) ==
    LET I == {i \in DOMAIN s : s[i] \notin Whitespace}
    IN IF I = {} THEN <<>>
       ELSE SubSeq(s, CHOOSE i \in I : \A j \in I : i <= j,
                      CHOOSE i \in I : \A j \in I : j <= i)

\* localpart@domain.tld: no whitespace, exactly one "@", and a "." after it
\* that has something between the "@" and itself and something after itself.
HasAddressForm(t) ==
    /\ \A i \in DOMAIN t : t[i] \notin Whitespace
    /\ Cardinality({i \in DOMAIN t : t[i] = "@"}) = 1
    /\ LET at == CHOOSE i \in DOMAIN t : t[i] = "@"
       IN /\ at > 1
          /\ \E d \in DOMAIN t : t[d] = "." /\ d > at + 1 /\ d < Len(t)

\* C6: addEmail issues a request, exactly one POST of the trimmed input, when
\* the trimmed input is non-empty and has the form localpart@domain.tld; every
\* other input gets an error notification and no request.
C6_AddValidatesLocally ==
    [][step'.op = "addEmail" =>
         LET t == Trimmed(inputValue)
         IN IF t # <<>> /\ HasAddressForm(t)
            THEN /\ step'.fetches = 1
                 /\ \E req \in BagToSet(inflight') :
                       /\ req.op = "addEmail" /\ req.email_address = t
                       /\ inflight' = inflight (+) SetToBag({req})
                 /\ step'.notes = <<>>
            ELSE /\ step'.fetches = 0
                 /\ inflight' = inflight
                 /\ Len(step'.notes) = 1 /\ step'.notes[1].type = "error"]_vars

C6_Witness ==
    /\ step.op = "addEmail" /\ step.fetches = 1
    /\ inputValue # Trimmed(inputValue)
    /\ \E req \in BagToSet(inflight) : req.email_address = Trimmed(inputValue)

\* C7: a bulk update that settles as a failure reloads nothing and leaves every
\* row checkbox, the select-all control and the bulk bar as they were; it adds
\* one error notification.
C7_BulkFailureChangesNothing ==
    [][(step'.op = "updatePagesSettle" /\ ~IsSuccess(step'.resp)) =>
         /\ step'.reloads = 0
         /\ UNCHANGED <<checkboxTargets, selectAll, bulkHidden>>
         /\ Len(step'.notes) = 1 /\ step'.notes[1].type = "error"]_vars

C7_Witness ==
    /\ view = "pages" /\ step.op = "updatePagesSettle"
    /\ step.resp.kind = "response" /\ step.resp.ok /\ ~step.resp.success
    /\ AnySelected /\ step.reloads = 0

\* The ids the server rendered into the checked rows, in DOM order.
CheckedIds ==
    LET S == {i \in DOMAIN checkboxTargets : checkboxTargets[i]}
    IN [k \in 1..Cardinality(S) |->
          RenderedPageId(CHOOSE i \in S : Cardinality({j \in S : j < i}) = k - 1)]

\* C8: a bulk action with some row checked issues exactly one request, carrying
\* the ids of the rows checked at that moment in DOM order; a request in flight
\* stays as issued whatever is checked or unchecked meanwhile; its success
\* reloads the view.
C8_BulkRequestSnapshot ==
    [][view = "pages" =>
         /\ (step'.op = "updatePages" /\ AnySelected) =>
               /\ step'.fetches = 1
               /\ \E req \in BagToSet(inflight') :
                     /\ req.op = "updatePages"
                     /\ req.page_ids = CheckedIds
                     /\ req.flag = step'.flag
                     /\ inflight' = inflight (+) SetToBag({req})
         /\ step'.op \notin {"updatePages", "updatePagesSettle"} =>
               inflight' = inflight
         /\ step'.op = "updatePagesSettle" =>
               /\ BagCardinality(inflight') = BagCardinality(inflight) - 1
               /\ IsSuccess(step'.resp) => step'.reloads = 1]_vars

C8_Witness ==
    /\ view = "pages"
    /\ \E req \in BagToSet(inflight) :
          Len(req.page_ids) = 2 /\ req.page_ids # CheckedIds

GenericTexts ==
    {"Failed to update pages", "An error occurred while updating pages",
     "Failed to add email", "Failed to update email", "Failed to delete email",
     "An error occurred. Please try again.",
     "Failed to delete sitemap", "An error occurred while deleting the sitemap",
     "Failed to archive sitemap", "An error occurred while archiving the sitemap"}

SettleOps ==
    {"updatePagesSettle", "addEmailSettle", "toggleEmailSettle",
     "deleteEmailSettle", "deleteSettle"}

HasMessage(resp) ==
    resp.kind = "response" /\ resp.message # undefined /\ resp.message # ""

\* C9: every handler treats a response as a success exactly when its status is
\* 2xx and its success flag is true; any other outcome gets one error
\* notification, the server's message when there is one and a generic text
\* otherwise, and none of the success path's changes.
C9_UniformFailure ==
    [][step'.op \in SettleOps =>
         IF IsSuccess(step'.resp)
         THEN step'.notes = <<Notice(step'.resp.message, "success")>>
         ELSE /\ Len(step'.notes) = 1
              /\ step'.notes[1].type = "error"
              /\ IF HasMessage(step'.resp)
                 THEN step'.notes[1].message = step'.resp.message
                 ELSE step'.notes[1].message \in GenericTexts
              /\ step'.reloads = 0
              /\ UNCHANGED <<inputValue, itemTargets, nodes>>
              /\ Len(emailList') = Len(emailList)]_vars

\* C10: the select-all control is checked exactly when the list is non-empty
\* and every row is checked.
C10_SelectAllChecked ==
    (view = "pages" /\ connected /\ hasSelectAllTarget) =>
        (selectAll.checked <=> AllSelected)

\* C11 as stated: after select-all has checked every row, unchecking one row
\* leaves the select-all control indeterminate and not checked, whatever the
\* length of the list.
C11_UncheckOneIsIndeterminate ==
    [][(/\ step.op = "toggleSelectAll" /\ selectAll.checked
        /\ step'.op = "toggleCheckbox") =>
         (selectAll'.indeterminate /\ ~selectAll'.checked)]_vars

\* C11: in a list of two or more rows, after select-all has checked every row,
\* unchecking one row leaves the select-all control indeterminate and not
\* checked.
C11_UncheckOneOfSeveral ==
    [][(/\ step.op = "toggleSelectAll" /\ selectAll.checked
        /\ Len(checkboxTargets) >= 2
        /\ step'.op = "toggleCheckbox") =>
         (selectAll'.indeterminate /\ ~selectAll'.checked)]_vars

C11_Witness ==
    /\ view = "pages" /\ step.op = "toggleCheckbox"
    /\ Len(checkboxTargets) >= 2
    /\ ~checkboxTargets[step.target]
    /\ \A i \in DOMAIN checkboxTargets : i # step.target => checkboxTargets[i]
    /\ selectAll.indeterminate /\ ~selectAll.checked

\* C12: a delete or archive request that settles as a failure (a failure
\* response or an exception) leaves the rendered list as it was, the targeted
\* item included, and triggers no reload.
C12_FailedDeleteKeepsItem ==
    [][(/\ step'.op \in {"deleteSettle", "deleteEmailSettle"}
        /\ ~IsSuccess(step'.resp)) =>
         /\ emailList' = emailList
         /\ itemTargets' = itemTargets
         /\ IsRendered(Rendered, step'.target) => IsRendered(Rendered', step'.target)
         /\ step'.reloads = 0]_vars

C12_Witness ==
    /\ step.op \in {"deleteSettle", "deleteEmailSettle"}
    /\ step.resp.kind = "response" /\ step.resp.ok /\ ~step.resp.success
    /\ IsRendered(Rendered, step.target)
    /\ step.reloads = 0

\* C13: a successful add appends exactly one item, carrying the id of the
\* response, at the end of the list and clears the input; a failed add (a
\* failure response or an exception) appends nothing and leaves the input as
\* the user has it.
C13_AddAppendsOnSuccessOnly ==
    [][(step'.op = "addEmailSettle") =>
         IF IsSuccess(step'.resp)
         THEN /\ Len(emailList') = Len(emailList) + 1
              /\ SubSeq(emailList', 1, Len(emailList)) = emailList
              /\ ParseInt(emailList'[Len(emailList')].emailIdAttr)
                   = step'.resp.email_id
              /\ inputValue' = <<>>
         ELSE /\ emailList' = emailList
              /\ inputValue' = inputValue]_vars

C13_Witness ==
    /\ step.op = "addEmailSettle" /\ IsSuccess(step.resp)
    /\ Len(emailList) >= 2
    /\ emailList[Len(emailList)].node = step.target
    /\ ParseInt(emailList[Len(emailList)].emailIdAttr) = step.resp.email_id
    /\ inputValue = <<>>

\* C14: of each bulk trigger (no-review, needs-review) at most one request is
\* in flight at any time.
C14_OneBulkRequestPerTrigger ==
    \A needsReview \in BOOLEAN :
        LET pending == {r \in BagToSet(inflight) :
                          r.op = "updatePages" /\ r.flag = needsReview}
        IN /\ Cardinality(pending) <= 1
           /\ \A r \in pending : CopiesIn(r, inflight) <= 1

\* C15: the add button is disabled exactly while an add request is in flight;
\* whenever it is enabled it carries its idle label, in particular after a
\* validation rejection and after the request has settled on any path.
C15_AddButtonDisabledWhileInFlight ==
    view = "emails" =>
        /\ addButton.disabled <=> (\E r \in BagToSet(inflight) : r.op = "addEmail")
        /\ ~addButton.disabled => addButton = IdleButton
        /\ step.op = "addEmailSettle" => addButton = IdleButton
        /\ (step.op = "addEmail" /\ step.fetches = 0) => addButton = IdleButton

C15_Witness ==
    /\ step.op = "addEmailSettle" /\ step.resp.kind = "exception"
    /\ addButton = IdleButton
    /\ inflight = EmptyBag

\* C16: a request that settles surfaces exactly one notification, a success
\* notification on a success response and an error notification otherwise.
C16_OneNoticePerRequest ==
    step.op \in SettleOps =>
        /\ Len(step.notes) = 1
        /\ \A i \in DOMAIN step.notes :
             step.notes[i].type = (IF IsSuccess(step.resp) THEN "success" ELSE "error")

\* C17: a response that settles for an item no longer in the rendered list ends
\* without an uncaught error and leaves the rendered list as it is.
C17_RemovedItemHandled ==
    [][(/\ step'.op \in {"toggleEmailSettle", "deleteEmailSettle", "deleteSettle"}
        /\ ~IsRendered(Rendered, step'.target)) =>
         /\ ~step'.uncaught
         /\ Rendered' = Rendered]_vars

\* C18: once no toggle request of an email item is in flight, its checkbox
\* shows the enabled flag the server holds for it.
C18_CheckboxEqualsServer ==
    \A i \in DOMAIN emailList :
        (/\ emailList[i].node \in DOMAIN serverEnabled
         /\ ~\E r \in BagToSet(inflight) :
               r.op = "toggleEmail" /\ r.node = emailList[i].node) =>
          emailList[i].checked = serverEnabled[emailList[i].node]

\* C19: on the sitemaps views a reload is triggered only by a step that leaves
\* no item rendered, and every successful delete that leaves no item rendered
\* triggers exactly one.
C19_ReloadIffListEmpty ==
    view \in SitemapViews =>
        /\ step.reloads > 0 => (itemTargets = <<>> /\ step.op = "deleteSettle")
        /\ (step.op = "deleteSettle" /\ IsSuccess(step.resp) /\ itemTargets = <<>>)
             => step.reloads = 1

\* A repeated delete of an item settles on the emptied list while another
\* request is still in flight.
C19_Witness ==
    /\ view \in SitemapViews
    /\ step.op = "deleteSettle" /\ IsSuccess(step.resp)
    /\ itemTargets = <<>> /\ step.reloads = 1
    /\ inflight # EmptyBag

\* The onboarding targets that exist carry "hidden".
OnboardingHidden(modalHidden, overlayHidden) ==
    /\ hasOnboardingModalTarget => modalHidden
    /\ hasOnboardingOverlayTarget => overlayHidden

\* C20: connect() hides the onboarding exactly when the stored flag is read as
\* "true", a failed read counting as unset, and otherwise leaves it as
\* rendered; skipOnboarding stores the flag unless the write fails, hides the
\* onboarding either way and never ends in an uncaught error.
C20_SkipFlagBestEffort ==
    [][/\ (step'.op = "connect" /\ view = "archive") =>
            /\ ~step'.uncaught
            /\ skipOnboardingItem' = skipOnboardingItem
            /\ IF ~step'.flag /\ skipOnboardingItem = "true"
               THEN OnboardingHidden(onboardingModalHidden', onboardingOverlayHidden')
               ELSE UNCHANGED <<onboardingModalHidden, onboardingOverlayHidden>>
       /\ step'.op = "skipOnboarding" =>
            /\ ~step'.uncaught
            /\ OnboardingHidden(onboardingModalHidden', onboardingOverlayHidden')
            /\ skipOnboardingItem' =
                 (IF step'.flag THEN skipOnboardingItem ELSE "true")]_vars

\* The write failed and the onboarding is hidden all the same.
C20_Witness ==
    /\ step.op = "skipOnboarding" /\ step.flag
    /\ skipOnboardingItem # "true"
    /\ hasOnboardingModalTarget /\ hasOnboardingOverlayTarget
    /\ onboardingModalHidden /\ onboardingOverlayHidden

====
